---- MODULE Spec2Model ----
(***************************************************************************)
(* A model of the MIX simulator of simulator.py: the Simulator object's    *)
(* state, the methods a caller can invoke on it, and the pure helpers      *)
(* they are built from.                                                    *)
(*                                                                         *)
(* Representation choices:                                                 *)
(*  - memory is the Python list of 4000 Word objects.  It is kept as the   *)
(*    finite map of the cells that differ from a fresh Word(); MemAt reads *)
(*    a list element and MemPut assigns one.                               *)
(*  - a Python exception that leaves a method is recorded in raised; every *)
(*    assignment the method made before the raise is kept.                 *)
(*  - last records the most recent call (method, arguments, return value)  *)
(*    and ncalls counts the method calls made on the machine.              *)
(*  - Python integers are unbounded, TLC's are 32 bits wide: the guards    *)
(*    named Fits keep every computed value below 2^31.                     *)
(***************************************************************************)
EXTENDS Integers, Sequences, FiniteSets, TLC

VARIABLES max_byte_size, memory, registers, rP, overflow_toggle, is_halted,
          comparison_indicator, time, raised, last, ncalls, audit

vars == <<max_byte_size, memory, registers, rP, overflow_toggle, is_halted,
          comparison_indicator, time, raised, last, ncalls, audit>>

machine == <<max_byte_size, memory, registers, rP, overflow_toggle, is_halted,
             comparison_indicator, time>>

----------------------------------------------------------------------------
(* Program constants                                                       *)

BYTE_MIN == 64
BYTE_MAX == 100
MEMORY_SIZE == 4000
WORD_BYTES == 5

POS == 1
NEG == -1

RegIds == {"A", "X", "J", "1", "2", "3", "4", "5", "6"}

----------------------------------------------------------------------------
(* Bounds of the model                                                     *)

\* method calls made on one machine in the runs of Spec
MaxCalls == 2
\* ST calls made on one machine in the runs of SpecStore
MaxStores == 1
MaxStoreSeq == 1
\* LD/LDN calls made on one machine in the runs of SpecLoad
MaxLoads == 1
\* ADD/SUB calls made on one machine in the runs of SpecArith
MaxArith == 2

----------------------------------------------------------------------------
(* Arithmetic helpers                                                      *)

Abs(x) == IF x < 0 THEN -x ELSE x

Min(a, b) == IF a < b THEN a ELSE b

Max(a, b) == IF a < b THEN b ELSE a

RECURSIVE Pow(_, _)
Pow(b, e) == IF e = 0 THEN 1 ELSE b * Pow(b, e - 1)

\* a + b can be computed in 32 bits (a, b >= 0)
SumFits(a, b) == a <= 2147483647 - b

\* a * b can be computed in 32 bits (a >= 0, b >= 1)
ProdFits(a, b) == a <= 2147483647 \div b

----------------------------------------------------------------------------
(* Python sequence slicing, s[lo:hi] and s[lo:], 0-based, negative indices *)
(* counted from the end and out-of-range indices clamped.                  *)

SliceIndex(i, n) == IF i < 0 THEN Max(i + n, 0) ELSE Min(i, n)

PySlice(s, lo, hi) ==
    LET a == SliceIndex(lo, Len(s))
        b == SliceIndex(hi, Len(s))
    IN  IF a >= b THEN <<>> ELSE SubSeq(s, a + 1, b)

PySliceFrom(s, lo) == PySlice(s, lo, Len(s))

PySliceTo(s, hi) == PySlice(s, 0, hi)

RECURSIVE Reverse(_)
Reverse(s) == IF s = <<>> THEN <<>> ELSE Append(Reverse(Tail(s)), Head(s))

----------------------------------------------------------------------------
(* Word and Register objects                                               *)

Word(value) == [sign |-> IF value >= 0 THEN POS ELSE NEG, value |-> Abs(value)]

Register(num_bytes) == [sign |-> POS, value |-> 0, num_bytes |-> num_bytes]

\* the list element memory[i], 0 <= i < MEMORY_SIZE
MemAt(mem, i) == IF i \in DOMAIN mem THEN mem[i] ELSE Word(0)

\* the list after memory[i] := w
MemPut(mem, i, w) ==
    IF w = Word(0)
    THEN [x \in DOMAIN mem \ {i} |-> mem[x]]
    ELSE [x \in DOMAIN mem \cup {i} |-> IF x = i THEN w ELSE mem[x]]

\* Python list indexing memory[address]: the list position, or -1 when the
\* subscript raises IndexError
ListIndex(address) ==
    IF address >= 0 /\ address < MEMORY_SIZE THEN address
    ELSE IF address < 0 /\ address >= -MEMORY_SIZE THEN address + MEMORY_SIZE
    ELSE -1

----------------------------------------------------------------------------
(* Byte helpers                                                            *)

\* the list quotients of _get_bytes before it is reversed
RECURSIVE Quotients(_, _, _)
Quotients(value, radix, n) ==
    IF n = 0 THEN <<>>
    ELSE <<value>> \o Quotients(value \div radix, radix, n - 1)

\* _get_bytes without quotients.reverse(): least significant byte first
_get_bytes_unreversed(value, radix) ==
    LET quotients == Quotients(value, radix, WORD_BYTES)
    IN  [i \in 1..Len(quotients) |-> quotients[i] % radix]

_get_bytes(value, radix) ==
    LET quotients == Reverse(Quotients(value, radix, WORD_BYTES))
    IN  [i \in 1..Len(quotients) |-> quotients[i] % radix]

\* the loop of _bytes_to_val over reversed(bs); a zero byte contributes 0
\* whatever its place, so its power is not computed
RECURSIVE BytesLoop(_, _, _, _)
BytesLoop(rbs, radix, val, place) ==
    IF rbs = <<>> THEN val
    ELSE BytesLoop(Tail(rbs), radix,
                   val + (IF Head(rbs) = 0 THEN 0
                          ELSE Head(rbs) * Pow(radix, place)),
                   place + 1)

_bytes_to_val(bs, radix) == BytesLoop(Reverse(bs), radix, 0, 0)

\* the value of bs can be computed in 32 bits
RECURSIVE BytesFitFrom(_, _, _)
BytesFitFrom(bs, radix, val) ==
    IF bs = <<>> THEN TRUE
    ELSE /\ ProdFits(val, radix)
         /\ SumFits(val * radix, Head(bs))
         /\ BytesFitFrom(Tail(bs), radix, val * radix + Head(bs))

BytesFit(bs, radix) == BytesFitFrom(bs, radix, 0)

\* get_field_val without start = start - 1
get_field_val_onebased(start, end, word, radix) ==
    LET bs == _get_bytes(word.value, radix)
    IN  _bytes_to_val(PySlice(bs, start, end), radix)

get_field_val(start, end, word, radix) ==
    LET start0 == start - 1
        bs     == _get_bytes(word.value, radix)
    IN  _bytes_to_val(PySlice(bs, start0, end), radix)

get_field_specification(F) == <<F \div 8, F % 8>>

\* parse_instruction that takes A from bytes 1-3
parse_instruction_wideA(instruction, radix) ==
    [sign |-> instruction.sign,
     A    |-> get_field_val(1, 3, instruction, radix),
     I    |-> get_field_val(3, 3, instruction, radix),
     F    |-> get_field_val(4, 4, instruction, radix),
     C    |-> get_field_val(5, 5, instruction, radix)]

parse_instruction(instruction, radix) ==
    [sign |-> instruction.sign,
     A    |-> get_field_val(1, 2, instruction, radix),
     I    |-> get_field_val(3, 3, instruction, radix),
     F    |-> get_field_val(4, 4, instruction, radix),
     C    |-> get_field_val(5, 5, instruction, radix)]

----------------------------------------------------------------------------
(* Construction                                                            *)

init_registers ==
    [id \in RegIds |-> IF id \in {"A", "X"} THEN Register(5) ELSE Register(2)]

init_memory == [x \in {} |-> Word(0)]

\* the machine after Simulator(size), BYTE_MIN <= size <= BYTE_MAX
Constructed(size) ==
    /\ max_byte_size = size
    /\ overflow_toggle = FALSE
    /\ is_halted = FALSE
    /\ time = 0
    /\ comparison_indicator = "EQUAL"
    /\ memory = init_memory
    /\ registers = init_registers
    /\ rP = Word(0)

\* an attribute that no assignment has created yet
Unset == "unset"

\* a Simulator object before __init__ runs: time is a class attribute, the
\* other attributes do not exist
New ==
    /\ max_byte_size = Unset
    /\ overflow_toggle = Unset
    /\ is_halted = Unset
    /\ time = 0
    /\ comparison_indicator = Unset
    /\ memory = Unset
    /\ registers = Unset
    /\ rP = Unset

\* _verify_max_byte_size that also rejects the two end values
_verify_max_byte_size_exclusive(size) == size <= BYTE_MIN \/ size >= BYTE_MAX

\* _verify_max_byte_size(size) raises ByteSizeException
_verify_max_byte_size(size) == size < BYTE_MIN \/ size > BYTE_MAX

Harness0 ==
    /\ raised = "none"
    /\ last = [op |-> "__init__"]
    /\ ncalls = 0
    /\ audit = [expected |-> 0, clean |-> TRUE]

\* byte sizes of the machines that are run
Radixes == {64, 100}

Init == (\E size \in Radixes : Constructed(size)) /\ Harness0

\* Simulator(size): _set_max_byte_size verifies the size before it assigns
\* max_byte_size, and init_machine runs only after it returned
__init__(size) ==
    /\ last.op = "new"
    /\ last' = [op |-> "__init__", size |-> size]
    /\ IF _verify_max_byte_size(size)
       THEN /\ raised' = "ByteSizeException"
            /\ UNCHANGED machine
       ELSE /\ raised' = "none"
            /\ max_byte_size' = size
            /\ overflow_toggle' = FALSE
            /\ is_halted' = FALSE
            /\ time' = 0
            /\ comparison_indicator' = "EQUAL"
            /\ memory' = init_memory
            /\ registers' = init_registers
            /\ rP' = Word(0)
    /\ UNCHANGED <<ncalls, audit>>

\* the object was constructed: its methods can be called
Alive == last.op # "new" /\ ~(last.op = "__init__" /\ raised # "none")

InitNew ==
    /\ New
    /\ raised = "none"
    /\ last = [op |-> "new"]
    /\ ncalls = 0
    /\ audit = [expected |-> 0, clean |-> TRUE]

----------------------------------------------------------------------------
(* Bookkeeping of a call                                                   *)

\* a method call returns or raises exc
Called(call, exc) ==
    /\ last' = call
    /\ raised' = exc
    /\ ncalls' = ncalls + 1

\* an assignment made by the caller, outside any method
Assigned(what) ==
    /\ last' = [op |-> what]
    /\ raised' = "none"
    /\ ncalls' = ncalls

SignedValue(w) == w.sign * w.value

\* the accumulator no longer holds a plain sum of ADD(_, 5) operands
AuditVoid == audit' = [audit EXCEPT !.clean = FALSE]

----------------------------------------------------------------------------
(* The caller's set-up, as in the tests: memory[a] = Word(v) and           *)
(* register.sign / register.value assignments.                             *)

Poke(address, w) ==
    /\ ncalls = 0
    /\ memory' = MemPut(memory, address, w)
    /\ Assigned("poke")
    /\ UNCHANGED <<max_byte_size, registers, rP, overflow_toggle, is_halted,
                   comparison_indicator, time, audit>>

SetReg(register, sign, value) ==
    /\ ncalls = 0
    /\ registers' = [registers EXCEPT ![register].sign = sign,
                                      ![register].value = value]
    /\ Assigned("setreg")
    /\ audit' = IF register = "A"
                THEN [expected |-> sign * value, clean |-> TRUE]
                ELSE audit
    /\ UNCHANGED <<max_byte_size, memory, rP, overflow_toggle, is_halted,
                   comparison_indicator, time>>

----------------------------------------------------------------------------
(* LD and LDN                                                              *)

\* LD that copies the word's sign whatever the field
LD_register_keepsign(register, word, F, radix) ==
    LET spec == get_field_specification(F)
        L    == IF spec[1] = 0 THEN 1 ELSE spec[1]
    IN  [register EXCEPT
            !.sign  = word.sign,
            !.value = get_field_val(L, spec[2], word, radix)]

\* the register after LD read word
LD_register(register, word, F, radix) ==
    LET spec     == get_field_specification(F)
        use_sign == spec[1] = 0
        L        == IF use_sign THEN 1 ELSE spec[1]
        R        == spec[2]
    IN  [register EXCEPT
            !.sign  = IF use_sign THEN word.sign ELSE POS,
            !.value = get_field_val(L, R, word, radix)]

LD(register, address, F) ==
    LET i    == ListIndex(address)
        call == [op |-> "LD", register |-> register, address |-> address, F |-> F]
    IN  /\ IF i = -1
           THEN /\ Called(call, "IndexError")
                /\ UNCHANGED <<registers, audit>>
           ELSE /\ registers' = [registers EXCEPT ![register] =
                       LD_register(registers[register], MemAt(memory, i), F,
                                   max_byte_size)]
                /\ Called(call, "none")
                /\ IF register = "A" THEN AuditVoid ELSE UNCHANGED audit
        /\ UNCHANGED <<max_byte_size, memory, rP, overflow_toggle, is_halted,
                       comparison_indicator, time>>

\* LDN that loads a field without the sign byte as LD does, positive
LDN_register_positive(register, word, F, radix) ==
    LET spec     == get_field_specification(F)
        use_sign == spec[1] = 0
        L        == IF use_sign THEN 1 ELSE spec[1]
    IN  [register EXCEPT
            !.sign  = IF use_sign
                      THEN (IF word.sign = POS THEN NEG ELSE POS)
                      ELSE POS,
            !.value = get_field_val(L, spec[2], word, radix)]

\* the register after LDN read word
LDN_register(register, word, F, radix) ==
    LET spec     == get_field_specification(F)
        use_sign == spec[1] = 0
        L        == IF use_sign THEN 1 ELSE spec[1]
        R        == spec[2]
    IN  [register EXCEPT
            !.sign  = IF use_sign
                      THEN (IF word.sign = POS THEN NEG ELSE POS)
                      ELSE NEG,
            !.value = get_field_val(L, R, word, radix)]

LDN(register, address, F) ==
    LET i    == ListIndex(address)
        call == [op |-> "LDN", register |-> register, address |-> address, F |-> F]
    IN  /\ IF i = -1
           THEN /\ Called(call, "IndexError")
                /\ UNCHANGED <<registers, audit>>
           ELSE /\ registers' = [registers EXCEPT ![register] =
                       LDN_register(registers[register], MemAt(memory, i), F,
                                    max_byte_size)]
                /\ Called(call, "none")
                /\ IF register = "A" THEN AuditVoid ELSE UNCHANGED audit
        /\ UNCHANGED <<max_byte_size, memory, rP, overflow_toggle, is_halted,
                       comparison_indicator, time>>

----------------------------------------------------------------------------
(* ST                                                                      *)

\* ST that takes the bytes off the front of the register instead of the back
ST_bytes_leftmost(register, word, F, radix) ==
    LET spec  == get_field_specification(F)
        L     == IF spec[1] = 0 THEN 1 ELSE spec[1]
        R     == spec[2]
        reg_bytes == _get_bytes(register.value, radix)
        mem_bytes == _get_bytes(word.value, radix)
        shifted   == PySliceTo(reg_bytes, 1 + R - L)
    IN  PySliceTo(mem_bytes, L - 1) \o shifted \o PySliceFrom(mem_bytes, R)

\* new_bytes of ST: the bytes of the stored word
ST_bytes(register, word, F, radix) ==
    LET spec  == get_field_specification(F)
        L     == IF spec[1] = 0 THEN 1 ELSE spec[1]
        R     == spec[2]
        reg_bytes == _get_bytes(register.value, radix)
        mem_bytes == _get_bytes(word.value, radix)
        num_bytes_needed == 1 + R - L
        shifted   == PySliceFrom(reg_bytes, -1 * num_bytes_needed)
    IN  PySliceTo(mem_bytes, L - 1) \o shifted \o PySliceFrom(mem_bytes, R)

\* the sign of memory[address] after ST
ST_sign(register, word, F) ==
    IF get_field_specification(F)[1] = 0 THEN register.sign ELSE word.sign

\* the body of ST for the Register object reg; call is the record of the
\* method that was invoked
ST_body(call, reg, address, F) ==
    LET i    == ListIndex(address)
        word == MemAt(memory, i)
        new_bytes == ST_bytes(reg, word, F, max_byte_size)
    IN  /\ IF i = -1
           THEN /\ Called(call, "IndexError")
                /\ UNCHANGED memory
           ELSE /\ BytesFit(new_bytes, max_byte_size)
                /\ memory' = MemPut(memory, i,
                       [sign  |-> ST_sign(reg, word, F),
                        value |-> _bytes_to_val(new_bytes, max_byte_size)])
                /\ Called(call, "none")
        /\ UNCHANGED <<max_byte_size, registers, rP, overflow_toggle, is_halted,
                       comparison_indicator, time, audit>>

ST(register, address, F) ==
    ST_body([op |-> "ST", register |-> register, address |-> address, F |-> F],
            registers[register], address, F)

\* STJ: self.ST(self.rJ, address, F)
STJ(address, F, C) ==
    ST_body([op |-> "STJ", address |-> address, F |-> F, C |-> C],
            registers["J"], address, F)

\* STZ: self.ST(Register(), address, F)
STZ(address, F, C) ==
    ST_body([op |-> "STZ", address |-> address, F |-> F, C |-> C],
            Register(WORD_BYTES), address, F)

----------------------------------------------------------------------------
(* ADD and SUB                                                             *)

\* the operand ADD and SUB read from word: the field's value, with the
\* word's sign when the field includes it
Operand(word, F, radix) ==
    LET spec     == get_field_specification(F)
        use_sign == spec[1] = 0
        L        == IF use_sign THEN 1 ELSE spec[1]
        R        == spec[2]
        val      == get_field_val(L, R, word, radix)
    IN  IF use_sign THEN val * word.sign ELSE val

\* ADD that adds to rA's magnitude without applying rA's sign first
ADD_rA_unsigned(rA, word, F, radix) ==
    LET value == rA.value + Operand(word, F, radix)
    IN  [rA EXCEPT
            !.sign  = IF value > 0 THEN POS
                      ELSE IF value < 0 THEN NEG
                      ELSE rA.sign,
            !.value = Abs(value)]

\* ADD that stores POS for a sum of zero
ADD_rA_zero_positive(rA, word, F, radix) ==
    LET value == rA.value * rA.sign + Operand(word, F, radix)
    IN  [rA EXCEPT
            !.sign  = IF value >= 0 THEN POS ELSE NEG,
            !.value = Abs(value)]

\* rA after ADD read word
ADD_rA(rA, word, F, radix) ==
    LET addend == Operand(word, F, radix)
        value  == rA.value * rA.sign + addend
    IN  [rA EXCEPT
            !.sign  = IF value > 0 THEN POS
                      ELSE IF value < 0 THEN NEG
                      ELSE rA.sign,
            !.value = Abs(value)]

\* |v| < radix^5, computed without radix^5
Below5(v, radix) == Abs(v) \div Pow(radix, WORD_BYTES - 1) < radix

ADD(address, F) ==
    LET i    == ListIndex(address)
        call == [op |-> "ADD", address |-> address, F |-> F]
        word == MemAt(memory, i)
    IN  /\ IF i = -1
           THEN /\ Called(call, "IndexError")
                /\ UNCHANGED <<registers, audit>>
           ELSE /\ SumFits(registers["A"].value,
                           Abs(Operand(word, F, max_byte_size)))
                /\ SumFits(Abs(audit.expected), word.value)
                /\ registers' = [registers EXCEPT !["A"] =
                       ADD_rA(registers["A"], word, F, max_byte_size)]
                /\ Called(call, "none")
                /\ audit' =
                       IF audit.clean /\ F = 5
                       THEN LET sum == audit.expected + SignedValue(word)
                            IN  [expected |-> sum,
                                 clean    |-> Below5(sum, max_byte_size)]
                       ELSE [audit EXCEPT !.clean = FALSE]
        /\ UNCHANGED <<max_byte_size, memory, rP, overflow_toggle, is_halted,
                       comparison_indicator, time>>

\* rA after SUB read word
SUB_rA(rA, word, F, radix) ==
    LET subtrahend == Operand(word, F, radix)
        value      == rA.value * rA.sign + subtrahend
    IN  [rA EXCEPT
            !.sign  = IF value > 0 THEN POS
                      ELSE IF value < 0 THEN NEG
                      ELSE rA.sign,
            !.value = Abs(value)]

SUB(address, F, C) ==
    LET i    == ListIndex(address)
        call == [op |-> "SUB", address |-> address, F |-> F, C |-> C]
        word == MemAt(memory, i)
    IN  /\ IF i = -1
           THEN /\ Called(call, "IndexError")
                /\ UNCHANGED <<registers, audit>>
           ELSE /\ SumFits(registers["A"].value,
                           Abs(Operand(word, F, max_byte_size)))
                /\ registers' = [registers EXCEPT !["A"] =
                       SUB_rA(registers["A"], word, F, max_byte_size)]
                /\ Called(call, "none")
                /\ AuditVoid
        /\ UNCHANGED <<max_byte_size, memory, rP, overflow_toggle, is_halted,
                       comparison_indicator, time>>

----------------------------------------------------------------------------
(* Fetch, run loop, HLT                                                    *)

\* get_next_instruction without self.rP.value += 1
get_next_instruction_noadvance ==
    LET call == [op |-> "get_next_instruction", rP |-> rP.value]
    IN  /\ IF ListIndex(rP.value) = -1
           THEN Called(call, "IndexError")
           ELSE Called(call @@ [result |-> MemAt(memory, ListIndex(rP.value))],
                       "none")
        /\ UNCHANGED <<machine, audit>>

get_next_instruction ==
    LET call == [op |-> "get_next_instruction", rP |-> rP.value]
    IN  /\ IF ListIndex(rP.value) = -1
           THEN /\ Called(call, "IndexError")
                /\ UNCHANGED rP
           ELSE /\ rP' = [rP EXCEPT !.value = rP.value + 1]
                /\ Called(call @@ [result |-> MemAt(memory, ListIndex(rP.value))],
                          "none")
        /\ UNCHANGED <<max_byte_size, memory, registers, overflow_toggle,
                       is_halted, comparison_indicator, time, audit>>

\* k successive get_next_instruction calls that all return
Fetches(k) ==
    /\ ncalls = 0
    /\ rP.value + k <= MEMORY_SIZE
    /\ rP' = [rP EXCEPT !.value = rP.value + k]
    /\ Assigned("fetches")
    /\ UNCHANGED <<max_byte_size, memory, registers, overflow_toggle,
                   is_halted, comparison_indicator, time, audit>>

\* cycle(): the loop body fetches and parses, then evaluates the name
\* increment_time, which is bound neither in cycle nor in the module, so the
\* first iteration raises NameError before any handler is dispatched; steps
\* lists the statements of the iteration that completed, failed the one that
\* raised
cycle ==
    LET call == [op |-> "cycle", rP |-> rP.value]
    IN  /\ IF is_halted
           THEN /\ Called(call @@ [steps |-> <<>>, failed |-> "none"], "none")
                /\ UNCHANGED rP
           ELSE IF ListIndex(rP.value) = -1
           THEN /\ Called(call @@ [steps |-> <<>>,
                                   failed |-> "get_next_instruction"],
                          "IndexError")
                /\ UNCHANGED rP
           ELSE /\ rP' = [rP EXCEPT !.value = rP.value + 1]
                /\ Called(call @@ [parts |->
                              parse_instruction(MemAt(memory, ListIndex(rP.value)),
                                                max_byte_size),
                              steps |-> <<"get_next_instruction",
                                          "parse_instruction">>,
                              failed |-> "increment_time"],
                          "NameError")
        /\ UNCHANGED <<max_byte_size, memory, registers, overflow_toggle,
                       is_halted, comparison_indicator, time, audit>>

\* self.increment_time(parsed_instruction): get_time_parameter evaluates the
\* name op_code, which is bound neither locally nor in the module, so the
\* call raises NameError before self.time is touched
increment_time(parsed_instruction) ==
    /\ Called([op |-> "increment_time", parts |-> parsed_instruction,
               time |-> time], "NameError")
    /\ UNCHANGED <<machine, audit>>

\* the key of self.registers an integer index selector names: the dictionary
\* has the integer keys 1..6 only
IndexKeys == <<"1", "2", "3", "4", "5", "6">>

\* index_from_address(address, I): self.registers[I] raises KeyError for a
\* selector that is no key, 0 included; the register's magnitude is added
index_from_address(address, I) ==
    LET call == [op |-> "index_from_address", address |-> address, I |-> I]
    IN  /\ IF I \in DOMAIN IndexKeys
           THEN Called(call @@ [result |->
                           address + registers[IndexKeys[I]].value], "none")
           ELSE Called(call, "KeyError")
        /\ UNCHANGED <<machine, audit>>

\* instruction_dispatch(parsed_instruction): sign, A and I are read, then the
\* name parsed_instructions, bound nowhere, is evaluated and raises NameError;
\* handled lists the handlers that were invoked
instruction_dispatch(parsed_instruction) ==
    /\ Called([op |-> "instruction_dispatch", parts |-> parsed_instruction,
               handled |-> <<>>], "NameError")
    /\ UNCHANGED <<machine, audit>>

HLT(address, F, C) ==
    /\ is_halted' = TRUE
    /\ Called([op |-> "HLT", address |-> address, F |-> F, C |-> C], "none")
    /\ UNCHANGED <<max_byte_size, memory, registers, rP, overflow_toggle,
                   comparison_indicator, time, audit>>

----------------------------------------------------------------------------
(* Calls of the pure helpers: they leave the machine alone and only their  *)
(* return value is recorded.                                               *)

Returned(call) ==
    /\ last' = call
    /\ raised' = "none"
    /\ UNCHANGED <<machine, ncalls, audit>>

Call_get_bytes(value) ==
    Returned([op |-> "_get_bytes", value |-> value,
              result |-> _get_bytes(value, max_byte_size)])

\* _bytes_to_val applied to the list the last _get_bytes call returned
Call_bytes_to_val ==
    /\ last.op = "_get_bytes"
    /\ Returned([op |-> "_bytes_to_val", bs |-> last.result, from |-> last.value,
                 result |-> _bytes_to_val(last.result, max_byte_size)])

Call_get_field_val(start, end, word) ==
    Returned([op |-> "get_field_val", start |-> start, end |-> end,
              word |-> word,
              result |-> get_field_val(start, end, word, max_byte_size)])

Call_parse_instruction(instruction) ==
    Returned([op |-> "parse_instruction", word |-> instruction,
              result |-> parse_instruction(instruction, max_byte_size)])

----------------------------------------------------------------------------
(* Inputs                                                                  *)

Signs == {POS, NEG}

\* the magnitude with bytes 1 2 3 4 5 and the one with bytes 6 7 8 9 0
V12345(radix) == _bytes_to_val(<<1, 2, 3, 4, 5>>, radix)

V67890(radix) == _bytes_to_val(<<6, 7, 8, 9, 0>>, radix)

\* the largest five-byte magnitude, radix^5 - 1, or the largest 32-bit
\* integer when that is smaller
Top(radix) ==
    IF ProdFits(Pow(radix, WORD_BYTES - 1), radix)
    THEN Pow(radix, WORD_BYTES) - 1
    ELSE 2147483647

\* every field specification F = 8L + R with 0 <= L <= R <= 5
ValidFields == UNION {{8 * L + R : R \in L..5} : L \in 0..5}

Magnitudes(radix) ==
    {0, 1, radix - 1, radix, 130, 134762881, V12345(radix), V67890(radix),
     Top(radix)}

\* addresses used as operands: both ends of memory, the first addresses
\* outside it on either side and the last negative subscript Python accepts
Addresses == {0, MEMORY_SIZE - 1, -1, MEMORY_SIZE, -MEMORY_SIZE - 1}

\* the word of an instruction with address A, index I, field F and opcode C
Instruction(sign, A, I, F, C, radix) ==
    [sign |-> sign,
     value |-> _bytes_to_val(<<A \div radix, A % radix, I, F, C>>, radix)]

\* LDA 3999 and HLT
LoadInstr(radix) == Instruction(POS, MEMORY_SIZE - 1, 0, 5, 8, radix)

HaltInstr(radix) == Instruction(POS, 0, 0, 2, 5, radix)

----------------------------------------------------------------------------
(* Specifications                                                          *)

\* the byte helpers on their own
NextBytes ==
    \/ \E value \in Magnitudes(max_byte_size) : Call_get_bytes(value)
    \/ Call_bytes_to_val
    \/ \E start \in 1..5, end \in 1..5, sign \in Signs,
          value \in Magnitudes(max_byte_size) :
          start <= end /\ Call_get_field_val(start, end, [sign |-> sign, value |-> value])
    \/ \E sign \in Signs, value \in Magnitudes(max_byte_size) :
          Call_parse_instruction([sign |-> sign, value |-> value])

SpecBytes == Init /\ [][NextBytes]_vars

\* stores
NextStore ==
    \/ \E sign \in Signs :
          Poke(0, [sign |-> sign, value |-> V12345(max_byte_size)])
    \/ \E register \in {"A", "1"}, sign \in Signs,
          value \in {0, V67890(max_byte_size)} :
          SetReg(register, sign, value)
    \/ \E register \in {"A", "1"}, address \in {0, MEMORY_SIZE - 1},
          F \in ValidFields :
          ncalls < MaxStores /\ ST(register, address, F)

SpecStore == Init /\ [][NextStore]_vars

\* loads
NextLoad ==
    \/ \E sign \in Signs,
          value \in {0, 300, V12345(max_byte_size), Top(max_byte_size)} :
          Poke(0, [sign |-> sign, value |-> value])
    \/ \E register \in {"A", "1"}, address \in {0, MEMORY_SIZE - 1},
          F \in ValidFields :
          ncalls < MaxLoads /\ LD(register, address, F)
    \/ \E register \in {"A", "1"}, address \in {0, MEMORY_SIZE - 1},
          F \in ValidFields :
          ncalls < MaxLoads /\ LDN(register, address, F)

SpecLoad == Init /\ [][NextLoad]_vars

\* arithmetic
NextArith ==
    \/ \E sign \in Signs, value \in {1, Top(max_byte_size)} :
          Poke(0, [sign |-> sign, value |-> value])
    \/ \E sign \in Signs : Poke(1, [sign |-> sign, value |-> 20])
    \/ \E sign \in Signs,
          value \in {0, 20, Top(max_byte_size) - 1, Top(max_byte_size)} :
          SetReg("A", sign, value)
    \/ \E address \in {0, 1}, F \in {5, 13, 45, 19} :
          ncalls < MaxArith /\ ADD(address, F)
    \/ \E address \in {0, 1}, F \in {5, 13, 45, 19} :
          ncalls < MaxArith /\ SUB(address, F, 2)

SpecArith == Init /\ [][NextArith]_vars

\* sequences of ST, STJ and STZ with every raw field value, on the initial
\* memory
RawFields == 0..63

NextStoreSeq ==
    \/ \E sign \in Signs, value \in {1, V67890(max_byte_size)} :
          SetReg("A", sign, value)
    \/ SetReg("J", POS, 1)
    \/ \E F \in RawFields : ncalls < MaxStoreSeq /\ ST("A", 0, F)
    \/ \E F \in RawFields : ncalls < MaxStoreSeq /\ STJ(0, F, 32)
    \/ \E F \in RawFields : ncalls < MaxStoreSeq /\ STZ(0, F, 33)

SpecStoreSeq == Init /\ [][NextStoreSeq]_vars

\* the whole machine
Next ==
    \/ /\ BytesFit(<<(MEMORY_SIZE - 1) \div max_byte_size,
                      (MEMORY_SIZE - 1) % max_byte_size, 0, 5, 8>>, max_byte_size)
       /\ Poke(0, LoadInstr(max_byte_size))
    \/ Poke(1, HaltInstr(max_byte_size))
    \/ \E value \in {300, -30} : Poke(MEMORY_SIZE - 1, Word(value))
    \/ \E k \in {MEMORY_SIZE - 1, MEMORY_SIZE} : Fetches(k)
    \/ \E address \in Addresses : ncalls < MaxCalls /\ LD("A", address, 5)
    \/ \E address \in Addresses : ncalls < MaxCalls /\ LDN("A", address, 5)
    \/ \E address \in Addresses : ncalls < MaxCalls /\ ST("A", address, 5)
    \/ \E address \in Addresses : ncalls < MaxCalls /\ ADD(address, 5)
    \/ \E address \in Addresses : ncalls < MaxCalls /\ SUB(address, 5, 2)
    \/ ncalls < MaxCalls /\ get_next_instruction
    \/ ncalls < MaxCalls /\ cycle
    \/ ncalls < MaxCalls /\ HLT(0, 2, 5)
    \/ \E sign \in Signs : SetReg("1", sign, 3)
    \/ \E I \in {0, 1, 6, 7} : ncalls < MaxCalls /\ index_from_address(10, I)
    \/ \E address \in {0, 1} :
          /\ ncalls < MaxCalls
          /\ instruction_dispatch(parse_instruction(MemAt(memory, address),
                                                    max_byte_size))
    \/ /\ ncalls < MaxCalls
       /\ increment_time(parse_instruction(MemAt(memory, 1), max_byte_size))

Spec == Init /\ [][Next]_vars

\* construction with a byte size on either side of both limits, then the
\* whole machine
Sizes == {BYTE_MIN - 1, BYTE_MIN, BYTE_MAX, BYTE_MAX + 1}

NextConstruct ==
    \/ \E size \in Sizes : __init__(size)
    \/ Alive /\ Next

SpecConstruct == InitNew /\ [][NextConstruct]_vars

----------------------------------------------------------------------------
(* Vocabulary of the properties                                            *)

\* byte k (1 = most significant) of a five-byte magnitude m
Digit(m, k, radix) == (m \div Pow(radix, WORD_BYTES - k)) % radix

\* the base-radix value of bytes k..end of the magnitude m
RECURSIVE FieldSum(_, _, _, _)
FieldSum(m, k, end, radix) ==
    IF k > end THEN 0
    ELSE Digit(m, k, radix) * Pow(radix, end - k) + FieldSum(m, k + 1, end, radix)

\* the field (L:R) of the raw value F
FieldL(F) == F \div 8

FieldR(F) == F % 8

\* this step is a call of method op that returned
Returns(op) == last'.op = op /\ ncalls' = ncalls + 1 /\ raised' = "none"

\* the operand of ADD/SUB: field (L:R) of w, signed when L = 0
FieldOperand(w, F, radix) ==
    LET val == FieldSum(w.value, Max(1, FieldL(F)), FieldR(F), radix)
    IN  IF FieldL(F) = 0 THEN w.sign * val ELSE val

----------------------------------------------------------------------------
(* C1: ST(register, address, 8L+R) with 0 <= L <= R <= 5, R >= 1 replaces  *)
(* bytes max(1,L)..R of memory[address] by the rightmost bytes of the      *)
(* register, keeps the other bytes, and sets the word's sign to the        *)
(* register's when L = 0 and keeps it when L > 0.                          *)

C1_StoreField ==
    [][ (Returns("ST") /\ last'.F \in ValidFields /\ FieldR(last'.F) >= 1) =>
        LET L    == Max(1, FieldL(last'.F))
            R    == FieldR(last'.F)
            i    == ListIndex(last'.address)
            old  == MemAt(memory, i)
            new  == MemAt(memory', i)
            reg  == registers[last'.register]
        IN  /\ Below5(new.value, max_byte_size)
            /\ \A k \in 1..WORD_BYTES :
                  Digit(new.value, k, max_byte_size) =
                     IF k >= L /\ k <= R
                     THEN Digit(reg.value, k + WORD_BYTES - R, max_byte_size)
                     ELSE Digit(old.value, k, max_byte_size)
            /\ new.sign = IF FieldL(last'.F) = 0 THEN reg.sign ELSE old.sign
      ]_vars

\* Knuth's example: (+)[6 7 8 9 0] stored with (2:3) into (-)[1 2 3 4 5]
C1_Witness ==
    /\ last.op = "ST" /\ raised = "none" /\ last.F = 19 /\ last.address = 0
    /\ registers[last.register].value = V67890(max_byte_size)
    /\ MemAt(memory, 0) =
          [sign |-> NEG, value |-> _bytes_to_val(<<1, 9, 0, 4, 5>>, max_byte_size)]

(* C2: LD(register, address, 8L+R) with 0 <= L <= R <= 5 loads the value   *)
(* of bytes max(1,L)..R of memory[address]; the register's sign is the     *)
(* word's when L = 0 and POS when L > 0; memory is unchanged.              *)

C2_LoadField ==
    [][ (Returns("LD") /\ last'.F \in ValidFields) =>
        LET w   == MemAt(memory, ListIndex(last'.address))
            reg == registers'[last'.register]
        IN  /\ reg.value = FieldSum(w.value, Max(1, FieldL(last'.F)),
                                    FieldR(last'.F), max_byte_size)
            /\ reg.sign = IF FieldL(last'.F) = 0 THEN w.sign ELSE POS
            /\ memory' = memory
      ]_vars

C2_Witness ==
    /\ last.op = "LD" /\ raised = "none" /\ last.F = 13
    /\ MemAt(memory, ListIndex(last.address)) =
          [sign |-> NEG, value |-> V12345(max_byte_size)]
    /\ registers[last.register].sign = POS
    /\ registers[last.register].value = V12345(max_byte_size)

(* C3: after any sequence of ADD(address, 5) in which no intermediate sum  *)
(* reaches radix^5, the signed value of rA is its initial signed value     *)
(* plus the signed values of the words added, and the overflow toggle is   *)
(* not set.                                                                *)

C3_AddAccumulates ==
    audit.clean =>
        /\ SignedValue(registers["A"]) = audit.expected
        /\ overflow_toggle = FALSE

\* rA = +20, then -20 and -1 are added: the sum passes through zero
C3_Witness ==
    /\ last.op = "ADD" /\ ncalls = 2 /\ audit.clean
    /\ audit.expected = -1
    /\ registers["A"].sign = NEG /\ registers["A"].value = 1

(* C4: ADD sets the overflow toggle exactly when the signed sum S has      *)
(* |S| >= radix^5 and then stores |S| mod radix^5 as rA's magnitude.       *)

C4_AddOverflow ==
    [][ Returns("ADD") =>
        LET S == SignedValue(registers["A"])
                 + FieldOperand(MemAt(memory, ListIndex(last'.address)),
                                last'.F, max_byte_size)
            over == ~Below5(S, max_byte_size)
        IN  /\ overflow_toggle' = (overflow_toggle \/ over)
            /\ registers'["A"].value =
                  IF over THEN Abs(S) % Pow(max_byte_size, WORD_BYTES)
                  ELSE Abs(S)
      ]_vars

(* C5: SUB(address, F, C) leaves rA holding signed(rA) - operand when its  *)
(* magnitude is below radix^5.                                             *)

C5_SubDifference ==
    [][ Returns("SUB") =>
        LET D == SignedValue(registers["A"])
                 - FieldOperand(MemAt(memory, ListIndex(last'.address)),
                                last'.F, max_byte_size)
        IN  Below5(D, max_byte_size) => SignedValue(registers'["A"]) = D
      ]_vars

(* C6: LDN(register, address, 8L+R) loads the value of bytes max(1,L)..R   *)
(* with the opposite of the sign LD would load; +0 loads as (NEG, 0).      *)

C6_LoadNegative ==
    [][ (Returns("LDN") /\ last'.F \in ValidFields) =>
        LET w   == MemAt(memory, ListIndex(last'.address))
            reg == registers'[last'.register]
        IN  /\ reg.value = FieldSum(w.value, Max(1, FieldL(last'.F)),
                                    FieldR(last'.F), max_byte_size)
            /\ reg.sign = IF FieldL(last'.F) = 0 THEN -w.sign ELSE NEG
            /\ (w = Word(0) /\ last'.F = 5 => reg.sign = NEG /\ reg.value = 0)
      ]_vars

C6_Witness ==
    /\ last.op = "LDN" /\ raised = "none" /\ last.F = 5
    /\ MemAt(memory, ListIndex(last.address)) = Word(0)
    /\ registers[last.register].sign = NEG
    /\ registers[last.register].value = 0

(* C7: for a magnitude m < radix^5, _get_bytes(m) is a list of exactly 5   *)
(* digits in 0..radix-1, most significant first, and                       *)
(* _bytes_to_val(_get_bytes(m)) = m.                                       *)

C7_BytesRoundTrip ==
    /\ last.op = "_get_bytes" =>
          /\ Len(last.result) = 5
          /\ \A k \in 1..Len(last.result) :
                /\ last.result[k] \in 0..(max_byte_size - 1)
                /\ last.result[k] = Digit(last.value, k, max_byte_size)
    /\ last.op = "_bytes_to_val" => last.result = last.from

C7_Witness ==
    /\ last.op = "_bytes_to_val" /\ max_byte_size = 64
    /\ last.bs = <<63, 63, 63, 63, 63>>
    /\ last.from = 1073741823 /\ last.result = 1073741823

(* C8: for 1 <= start <= end <= 5, get_field_val(start, end, word) is the  *)
(* base-radix value of bytes start..end of the word: field (k,k) is byte   *)
(* k, field (1,5) the whole magnitude, whatever the word's sign.           *)

C8_FieldValue ==
    last.op = "get_field_val" =>
        /\ last.result = FieldSum(last.word.value, last.start, last.end,
                                  max_byte_size)
        /\ (last.start = last.end =>
               last.result = Digit(last.word.value, last.start, max_byte_size))
        /\ (last.start = 1 /\ last.end = 5 => last.result = last.word.value)

\* the test's word 134762881 = [8 2 5 6 1] in radix 64, negative
C8_Witness ==
    /\ last.op = "get_field_val" /\ max_byte_size = 64
    /\ last.word = [sign |-> NEG, value |-> 134762881]
    /\ last.start = 3 /\ last.end = 3 /\ last.result = 5

(* C9: a memory access with an address outside 0..3999 (operand of LD,     *)
(* LDN, ST, ADD, SUB, or the fetch at PC = 4000) fails with an error and   *)
(* leaves memory, registers and PC unchanged.                              *)

C9_OutOfRangeFails ==
    [][ /\ (/\ ncalls' = ncalls + 1
            /\ last'.op \in {"LD", "LDN", "ST", "ADD", "SUB"}
            /\ ~(last'.address \in 0..(MEMORY_SIZE - 1)))
           => (raised' # "none" /\ UNCHANGED <<memory, registers, rP>>)
        /\ (/\ ncalls' = ncalls + 1
            /\ last'.op = "get_next_instruction"
            /\ ~(rP.value \in 0..(MEMORY_SIZE - 1)))
           => (raised' # "none" /\ UNCHANGED <<memory, registers, rP>>)
      ]_vars

(* C10: on a fresh radix-64 machine holding a load at address 0 and HLT at *)
(* address 1, cycle() ends without error, halted, with PC = 2 and the      *)
(* loaded register holding the operand word.                               *)

C10_RunToHalt ==
    (/\ last.op = "cycle" /\ ncalls = 1 /\ last.rP = 0
     /\ max_byte_size = 64
     /\ MemAt(memory, 0) = LoadInstr(64)
     /\ MemAt(memory, 1) = HaltInstr(64))
    => /\ raised = "none"
       /\ is_halted
       /\ rP.value = 2
       /\ registers["A"].sign = MemAt(memory, MEMORY_SIZE - 1).sign
       /\ registers["A"].value = MemAt(memory, MEMORY_SIZE - 1).value


(* C11: with PC = p in 0..3999, get_next_instruction returns memory[p] and *)
(* leaves PC = p + 1; memory, registers, flags and clock are unchanged.    *)

C11_FetchAdvances ==
    [][ (Returns("get_next_instruction") /\ rP.value \in 0..(MEMORY_SIZE - 1)) =>
        /\ last'.result = MemAt(memory, rP.value)
        /\ rP'.value = rP.value + 1
        /\ UNCHANGED <<max_byte_size, memory, registers, overflow_toggle,
                       is_halted, comparison_indicator, time>>
      ]_vars

\* the load instruction at address 0 has been fetched
C11_Witness ==
    /\ last.op = "get_next_instruction" /\ raised = "none"
    /\ last.rP = 0 /\ max_byte_size = 64
    /\ last.result = LoadInstr(64)
    /\ rP.value = 1


(* C12: instruction_dispatch passes the handler the effective address s*A  *)
(* when I = 0 and s*A plus the signed value of index register I when       *)
(* 1 <= I <= 6; a selector outside 0..6 is rejected with the               *)
(* undefined-register error and no handler runs.                           *)

C12_EffectiveAddress ==
    /\ last.op = "instruction_dispatch" =>
          LET p == last.parts
          IN  IF p.I \in 0..6
              THEN /\ raised = "none"
                   /\ Len(last.handled) = 1
                   /\ last.handled[1].address =
                         p.sign * p.A
                         + (IF p.I = 0 THEN 0
                            ELSE SignedValue(registers[IndexKeys[p.I]]))
              ELSE /\ raised = "UndefinedRegisterException"
                   /\ last.handled = <<>>
    /\ last.op = "index_from_address" =>
          IF last.I \in 0..6
          THEN /\ raised = "none"
               /\ last.result =
                     last.address
                     + (IF last.I = 0 THEN 0
                        ELSE SignedValue(registers[IndexKeys[last.I]]))
          ELSE raised = "UndefinedRegisterException"


(* C13: Simulator(r) succeeds exactly when 64 <= r <= 100; otherwise it    *)
(* raises the byte-size error before memory or registers are created; the  *)
(* radix of a constructed machine is never changed.                        *)

C13_Constructed ==
    (last.op = "__init__" /\ raised = "none") =>
        /\ last.size \in 64..100
        /\ max_byte_size = last.size
        /\ memory = init_memory
        /\ registers = init_registers

C13_Rejected ==
    (last.op = "__init__" /\ raised # "none") =>
        /\ ~(last.size \in 64..100)
        /\ raised = "ByteSizeException"
        /\ memory = Unset
        /\ registers = Unset
        /\ max_byte_size = Unset

C13_RadixFixed ==
    /\ [](C13_Constructed /\ C13_Rejected)
    /\ [][Alive => max_byte_size' = max_byte_size]_vars

\* Simulator(101) was rejected
C13_Witness ==
    /\ last.op = "__init__" /\ last.size = BYTE_MAX + 1
    /\ raised = "ByteSizeException"
    /\ registers = Unset


(* C14: whenever ADD or SUB produces a result of exactly zero, rA is left  *)
(* with sign POS, whatever its sign was before.                            *)

C14_ZeroIsPositive ==
    [][ ((Returns("ADD") \/ Returns("SUB")) /\ registers'["A"].value = 0) =>
        registers'["A"].sign = POS
      ]_vars

(* C14 as amended: whenever ADD or SUB leaves a magnitude of zero in rA,   *)
(* rA keeps the sign it had before the operation.                          *)

C14_ZeroKeepsSign ==
    [][ ((Returns("ADD") \/ Returns("SUB")) /\ registers'["A"].value = 0) =>
        registers'["A"].sign = registers["A"].sign
      ]_vars

\* rA = (NEG, 20) plus the word +20
C14_Witness ==
    /\ last.op = "ADD" /\ raised = "none" /\ ncalls = 1
    /\ last.address = 1 /\ last.F = 5
    /\ MemAt(memory, 1) = Word(20)
    /\ registers["A"].sign = NEG /\ registers["A"].value = 0


(* C15: after any LD or LDN into a register, for any field (L,R) with      *)
(* 0 <= L <= R <= 5, the register's magnitude is below radix^num_bytes:    *)
(* radix^5 for rA and rX, radix^2 for each index register.                 *)

C15_WithinWidth ==
    (last.op \in {"LD", "LDN"} /\ raised = "none" /\ last.F \in ValidFields) =>
        LET reg == registers[last.register]
        IN  IF reg.num_bytes = WORD_BYTES
            THEN Below5(reg.value, max_byte_size)
            ELSE reg.value < Pow(max_byte_size, reg.num_bytes)


(* C16: for a word of magnitude m < radix^5, parse_instruction returns the *)
(* word's sign, A = bytes 1-2, I = byte 3, F = byte 4, C = byte 5, so that *)
(* m = A*radix^3 + I*radix^2 + F*radix + C, and F and C lie in 0..63.      *)

C16_Fields(top) ==
    last.op = "parse_instruction" =>
        LET m == last.word.value
            p == last.result
            r == max_byte_size
        IN  /\ p.sign = last.word.sign
            /\ p.A = FieldSum(m, 1, 2, r)
            /\ p.I = Digit(m, 3, r)
            /\ p.F = Digit(m, 4, r)
            /\ p.C = Digit(m, 5, r)
            /\ m = p.A * Pow(r, 3) + p.I * Pow(r, 2) + p.F * r + p.C
            /\ p.F \in 0..top
            /\ p.C \in 0..top

C16_DecodeTo63 == C16_Fields(63)

(* C16 as amended: ... and F and C lie in 0..radix-1.                      *)

C16_DecodeBytes == C16_Fields(max_byte_size - 1)

\* the word -134762881 = [1 34 76 28 81] in radix 100
C16_Witness ==
    /\ last.op = "parse_instruction" /\ max_byte_size = 100
    /\ last.word = [sign |-> NEG, value |-> 134762881]
    /\ last.result = [sign |-> NEG, A |-> 134, I |-> 76, F |-> 28, C |-> 81]


(* C17: in a cycle of the run loop the steps are fetch, PC := PC+1,        *)
(* decode, handler, clock advance: the clock step is reached only after    *)
(* the handler has run, a cycle whose handler raises leaves the clock at   *)
(* its previous value, and a completed cycle raises the clock by at least  *)
(* one.                                                                    *)

C17_Iterated == last.op = "cycle" /\ "parts" \in DOMAIN last

C17_ClockStepReached ==
    C17_Iterated /\ (last.failed = "increment_time" \/ last.failed = "none")

C17_HandlerRan ==
    \E k \in DOMAIN last.steps : last.steps[k] = "instruction_dispatch"

C17_HandlerThenClock ==
    /\ [](C17_ClockStepReached => C17_HandlerRan)
    /\ [][C17_Iterated' =>
             IF raised' = "none" THEN time' >= time + 1 ELSE time' = time]_vars


(* C18: from the initial memory, after any sequence of ST, STJ and STZ     *)
(* with raw field values in 0..63 and register magnitudes below radix^5,   *)
(* every memory word has a magnitude below radix^5, and a store with       *)
(* F = 0 changes at most the sign of the target word.                      *)

C18_Stored == last.op \in {"ST", "STJ", "STZ"} /\ raised = "none"

C18_WordsStayFiveBytes ==
    /\ [](\A a \in DOMAIN memory : Below5(memory[a].value, max_byte_size))
    /\ [][C18_Stored' /\ last'.F = 0 =>
             MemAt(memory', last'.address).value =
                 MemAt(memory, last'.address).value]_vars

====
